---- MODULE Spec2Model ----
(***************************************************************************)
(* Tally and seat-allocation engine of elective_offices_server.            *)
(*                                                                         *)
(*   src/src/calc/calc.py   do_calc, _resolve_seats_from_jsonl_or_meta,    *)
(*                          _aggregate_votes and the five allocation       *)
(*                          algorithms                                     *)
(*   src/src/helpers/db.py  load_db, save_db, get_seats                    *)
(*                                                                         *)
(* Group ids are Python strings compared lexicographically; they are       *)
(* modelled by the integers 0..NumGroups, standing for the one-character   *)
(* ids "0", "1", "2", ... whose string order is the integer order.  A      *)
(* votes dict is the sequence of its items <<gid, votes>> in insertion     *)
(* order.                                                                  *)
(*                                                                         *)
(* Python floats are IEEE-754 binary64.  TLC integers are 32 bits wide, so *)
(* a float is modelled as [e, m]: m is its 53-bit significand as a tuple   *)
(* of bits, most significant first, and the value is m * 2^e.  Every       *)
(* float operation of the source is exact arithmetic on bit strings        *)
(* followed by one round-to-nearest-even.                                  *)
(***************************************************************************)
EXTENDS Integers, Sequences, FiniteSets, TLC

(***************************************************************************)
(* Bounds of the model.                                                    *)
(***************************************************************************)
NumGroups == 3
MaxVotes == 3
MaxNegSeats == 1
MaxSeats == 4

(***************************************************************************)
(* binary64 arithmetic                                                     *)
(***************************************************************************)
Precision == 53
ChunkBits == 15

Zeros(n) == [i \in 1..n |-> 0]

MinOf(S) == CHOOSE x \in S : \A y \in S : x <= y
MaxOf(S) == CHOOSE x \in S : \A y \in S : x >= y

\* Binary digits of an integer 0 <= n < 2^30, most significant first.
NatBits(n) ==
    LET len == CHOOSE k \in 0..30 : n < 2^k /\ (k = 0 \/ n >= 2^(k - 1))
    IN  [i \in 1..len |-> (n \div 2^(len - i)) % 2]

\* b without its leading zeros.
Strip(b) ==
    LET nz == {i \in 1..Len(b) : b[i] = 1}
    IN  IF nz = {} THEN <<>> ELSE SubSeq(b, MinOf(nz), Len(b))

\* int(b) + 1; one bit longer than b when b is all ones.
Incr(b) ==
    LET z == {i \in 1..Len(b) : b[i] = 0}
    IN  IF z = {} THEN <<1>> \o Zeros(Len(b))
        ELSE SubSeq(b, 1, MaxOf(z) - 1) \o <<1>> \o Zeros(Len(b) - MaxOf(z))

FZero == [e |-> 0, m |-> <<>>]

\* The float nearest to int(b0) * 2^e (ties to even); sticky0 tells that the
\* exact value lies strictly above int(b0) * 2^e, below the next bit string.
RoundBits(b0, e, sticky0) ==
    LET b == Strip(b0)
        n == Len(b)
    IN  IF n = 0 THEN FZero
        ELSE IF n <= Precision
             THEN [e |-> e - (Precision - n), m |-> b \o Zeros(Precision - n)]
        ELSE LET keep == SubSeq(b, 1, Precision)
                 sticky == sticky0 \/ \E i \in (Precision + 2)..n : b[i] = 1
                 up == b[Precision + 1] = 1 /\ (sticky \/ keep[Precision] = 1)
                 m1 == IF up THEN Incr(keep) ELSE keep
             IN  IF Len(m1) > Precision
                 THEN [e |-> e + (n - Precision) + 1, m |-> SubSeq(m1, 1, Precision)]
                 ELSE [e |-> e + (n - Precision), m |-> m1]

\* float(v) for an integer v >= 0.
FromInt(v) == RoundBits(NatBits(v), 0, FALSE)

\* Long division: n * ChunkBits binary digits of r / b after the point
\* (0 <= r < b < 2^16), and the remainder left over.
RECURSIVE FracBits(_, _, _)
FracBits(r, b, n) ==
    IF n = 0 THEN [bits |-> <<>>, rem |-> r]
    ELSE LET q == (r * 2^ChunkBits) \div b
             rest == FracBits((r * 2^ChunkBits) % b, b, n - 1)
         IN  [bits |-> [i \in 1..ChunkBits |-> (q \div 2^(ChunkBits - i)) % 2] \o rest.bits,
              rem |-> rest.rem]

\* a / b for integers a >= 0, 0 < b < 2^16: the correctly rounded quotient.
FDiv(a, b) ==
    LET fr == FracBits(a % b, b, 5)
    IN  RoundBits(NatBits(a \div b) \o fr.bits, 0 - 5 * ChunkBits, fr.rem # 0)

\* The integer written by at most 30 bits.
RECURSIVE BitsVal(_)
BitsVal(b) ==
    IF Len(b) = 0 THEN 0
    ELSE IF Len(b) = 1 THEN b[1]
    ELSE LET h == Len(b) \div 2
         IN  BitsVal(SubSeq(b, 1, h)) * 2^(Len(b) - h) + BitsVal(SubSeq(b, h + 1, Len(b)))

\* The w low binary digits of v.
FixBits(v, w) == [i \in 1..w |-> (v \div 2^(w - i)) % 2]

ChunkLen(b) == IF Len(b) < ChunkBits THEN Len(b) ELSE ChunkBits
LowChunk(b) == SubSeq(b, Len(b) - ChunkLen(b) + 1, Len(b))
HighPart(b) == SubSeq(b, 1, Len(b) - ChunkLen(b))

\* int(b) * k + c for integers 0 <= k, c < 2^15, one chunk at a time from
\* the least significant end.
RECURSIVE MulStep(_, _, _)
MulStep(b, k, c) ==
    IF Len(b) = 0 THEN NatBits(c)
    ELSE LET t == BitsVal(LowChunk(b)) * k + c
         IN  MulStep(HighPart(b), k, t \div 2^ChunkLen(b)) \o FixBits(t % 2^ChunkLen(b), ChunkLen(b))

MulBits(b, k) == MulStep(b, k, 0)

\* x * k for an integer-valued float k (100.0, or float(s)).
FMulInt(x, k) == RoundBits(MulBits(x.m, k), x.e, FALSE)

\* int(x) - int(y) - br for bit strings of one length with int(x) >= int(y),
\* one chunk at a time from the least significant end.
RECURSIVE SubStep(_, _, _)
SubStep(x, y, br) ==
    IF Len(x) = 0 THEN <<>>
    ELSE LET t == BitsVal(LowChunk(x)) - BitsVal(LowChunk(y)) - br
         IN  SubStep(HighPart(x), HighPart(y), IF t < 0 THEN 1 ELSE 0)
                 \o FixBits((t + 2^ChunkLen(x)) % 2^ChunkLen(x), ChunkLen(x))

\* int(x) - int(y) for int(x) >= int(y).
SubBits(x, y) ==
    LET n == IF Len(x) > Len(y) THEN Len(x) ELSE Len(y)
    IN  SubStep(Zeros(n - Len(x)) \o x, Zeros(n - Len(y)) \o y, 0)

\* Bit strings of two floats over their common (smaller) exponent.
AlignE(ex, ey) == IF ex < ey THEN ex ELSE ey
AlignBits(b, eb, e) == Strip(b) \o Zeros(IF Strip(b) = <<>> THEN 0 ELSE eb - e)

\* int(a) < int(b) for bit strings without leading zeros.
BitsLess(a, b) ==
    \/ Len(a) < Len(b)
    \/ /\ Len(a) = Len(b)
       /\ \E i \in 1..Len(a) : a[i] < b[i] /\ \A j \in 1..(i - 1) : a[j] = b[j]

\* int(a) * 2^ea <= int(b) * 2^eb, exactly.
ExactLeq(a, ea, b, eb) ==
    LET e == AlignE(ea, eb)
    IN  ~ BitsLess(AlignBits(b, eb, e), AlignBits(a, ea, e))

FLess(x, y) == ~ ExactLeq(y.m, y.e, x.m, x.e)
FGeq(x, y) == ExactLeq(y.m, y.e, x.m, x.e)

\* x - y for floats x >= y >= 0.
FSub(x, y) ==
    LET e == AlignE(x.e, y.e)
    IN  IF y.m = <<>> THEN x
        ELSE RoundBits(SubBits(AlignBits(x.m, x.e, e), AlignBits(y.m, y.e, e)), e, FALSE)

\* v / q rounded up instead of down.
FloorDivUp(v, q, bound) ==
    CHOOSE n \in 0..bound :
        /\ ExactLeq(NatBits(v), 0, MulBits(q.m, n), q.e)
        /\ n = 0 \/ ~ ExactLeq(NatBits(v), 0, MulBits(q.m, n - 1), q.e)

\* v // q for an integer v >= 0 and a float q > 0 with v / q < bound:
\* Python's float floor division returns the floor of the exact quotient.
FloorDiv(v, q, bound) ==
    CHOOSE n \in 0..bound :
        /\ ExactLeq(MulBits(q.m, n), q.e, NatBits(v), 0)
        /\ ~ ExactLeq(MulBits(q.m, n + 1), q.e, NatBits(v), 0)

(***************************************************************************)
(* Python built-ins on a votes dict                                        *)
(***************************************************************************)
Gids(votes) == {votes[i][1] : i \in 1..Len(votes)}
VotesOf(votes, gid) == votes[CHOOSE i \in 1..Len(votes) : votes[i][1] = gid][2]

\* sum(votes.values())
RECURSIVE SumVotes(_)
SumVotes(votes) ==
    IF Len(votes) = 0 THEN 0 ELSE votes[1][2] + SumVotes(Tail(votes))

\* sum(by_group.values())
RECURSIVE SumOver(_, _)
SumOver(f, S) ==
    IF S = {} THEN 0
    ELSE LET g == CHOOSE x \in S : TRUE IN f[g] + SumOver(f, S \ {g})

SumSeats(by_group) == SumOver(by_group, DOMAIN by_group)

\* list.sort(key=..., reverse=True) and sorted(..., reverse=True): a stable
\* sort, descending.  Before(a, b) holds when key(a) > key(b).
SortDesc(s, Before(_, _)) ==
    LET n == Len(s)
        pos == [i \in 1..n |->
                  1 + Cardinality({j \in 1..n :
                          \/ Before(s[j], s[i])
                          \/ j < i /\ ~ Before(s[i], s[j])})]
    IN  [p \in 1..n |-> s[CHOOSE i \in 1..n : pos[i] = p]]

\* seq[:n - 1]: a slice one element short.
TakeOneShort(s, n) ==
    SubSeq(s, 1, IF n - 1 < 0 THEN 0 ELSE IF n - 1 > Len(s) THEN Len(s) ELSE n - 1)

\* seq[-n:]: the slice from the other end.
TakeFromEnd(s, n) ==
    LET k == IF n < 0 THEN 0 ELSE IF n > Len(s) THEN Len(s) ELSE n
    IN  SubSeq(s, Len(s) - k + 1, Len(s))

\* seq[:n]
Take(s, n) == SubSeq(s, 1, IF n < 0 THEN 0 ELSE IF n > Len(s) THEN Len(s) ELSE n)

\* Tuple order on (votes, gid) and on (float, votes, gid).
\* The key (votes, gid) with ties going to the smaller gid.
PairBeforeLowId(a, b) == a[2] > b[2] \/ (a[2] = b[2] /\ a[1] < b[1])

PairBefore(a, b) == a[2] > b[2] \/ (a[2] = b[2] /\ a[1] > b[1])

\* The key order without reverse=True: ascending.
KeyBeforeAscending(a, b) ==
    \/ FLess(a.q, b.q)
    \/ /\ a.q = b.q
       /\ \/ a.v < b.v
          \/ a.v = b.v /\ a.gid < b.gid

\* The key (float, votes) without the gid: ties between groups stay in
\* insertion order.
KeyBeforeNoId(a, b) ==
    \/ FLess(b.q, a.q)
    \/ a.q = b.q /\ a.v > b.v

\* The key with the raw votes ascending: equal quotients go to the group
\* with fewer votes.
KeyBeforeFewerVotes(a, b) ==
    \/ FLess(b.q, a.q)
    \/ /\ a.q = b.q
       /\ \/ a.v < b.v
          \/ a.v = b.v /\ a.gid > b.gid

KeyBefore(a, b) ==
    \/ FLess(b.q, a.q)
    \/ /\ a.q = b.q
       /\ \/ a.v > b.v
          \/ a.v = b.v /\ a.gid > b.gid

(***************************************************************************)
(* Allocation methods                                                      *)
(***************************************************************************)
ZeroResult(votes) == [gid \in Gids(votes) |-> 0]

\* The quotients over the odd divisors 1, 3, 5, ...
QuotientsOddDivisors(votes, seats) ==
    [k \in 1..(Len(votes) * seats) |->
        LET i == ((k - 1) \div seats) + 1
            d == ((k - 1) % seats) + 1
        IN  [q |-> FDiv(votes[i][2], 2 * d - 1), gid |-> votes[i][1], d |-> d,
             v |-> votes[i][2]]]

\* The quotients list of D'Hondt, in the order the two loops append to it.
Quotients(votes, seats) ==
    [k \in 1..(Len(votes) * seats) |->
        LET i == ((k - 1) \div seats) + 1
            d == ((k - 1) % seats) + 1
        IN  [q |-> FDiv(votes[i][2], d), gid |-> votes[i][1], d |-> d, v |-> votes[i][2]]]

_alloc_dhondt(votes, seats) ==
    IF seats <= 0 \/ Len(votes) = 0
    THEN [by_group |-> ZeroResult(votes), meta |-> [seats |-> seats, note |-> "sin asignacion"]]
    ELSE LET quotients == SortDesc(Quotients(votes, seats), KeyBefore)
             picks == Take(quotients, seats)
         IN  [by_group |-> [gid \in Gids(votes) |->
                               Cardinality({k \in 1..Len(picks) : picks[k].gid = gid})],
              meta |-> [seats |-> seats, total_votes |-> SumVotes(votes),
                        picks_preview |-> [k \in 1..Len(picks) |->
                                             [gid |-> picks[k].gid, d |-> picks[k].d]]]]

\* The floor step of Hare: per group the floor seats and the remainder.
HareFloor(votes, seats) ==
    LET quota == FDiv(SumVotes(votes), seats)
    IN  [i \in 1..Len(votes) |->
            LET s == FloorDiv(votes[i][2], quota, seats + 1)
            IN  [s |-> s, gid |-> votes[i][1], v |-> votes[i][2],
                 q |-> FSub(FromInt(votes[i][2]), FMulInt(quota, s))]]

RECURSIVE SumFloor(_)
SumFloor(fl) == IF Len(fl) = 0 THEN 0 ELSE fl[1].s + SumFloor(Tail(fl))

_alloc_hare(votes, seats) ==
    LET total == SumVotes(votes) IN
    IF seats <= 0 \/ total <= 0 \/ Len(votes) = 0
    THEN [by_group |-> ZeroResult(votes),
          meta |-> [seats |-> seats, total_votes |-> total, note |-> "sin asignacion"]]
    ELSE LET fl == HareFloor(votes, seats)
             assigned == SumFloor(fl)
             remaining == seats - assigned
             remainders == SortDesc(fl, KeyBefore)
             extra == Take(remainders, IF remaining > 0 THEN remaining ELSE 0)
         IN  [by_group |-> [gid \in Gids(votes) |->
                               (CHOOSE r \in {fl[i] : i \in 1..Len(fl)} : r.gid = gid).s
                               + Cardinality({k \in 1..Len(extra) : extra[k].gid = gid})],
              meta |-> [seats |-> seats, total_votes |-> total,
                        assigned_floor |-> assigned,
                        remaining_after_floor |-> IF remaining > 0 THEN remaining ELSE 0]]

\* round(x) for a float 0 <= x <= bound: the nearest integer, and the even
\* one of the two when x is halfway between them.
PyRound(x, bound) ==
    LET TwiceLeq(k) == ExactLeq(x.m, x.e + 1, NatBits(k), 0)
        LeqTwice(k) == ExactLeq(NatBits(k), 0, x.m, x.e + 1)
    IN  CHOOSE n \in 0..bound :
            /\ \/ n = 0
               \/ IF n % 2 = 0 THEN LeqTwice(2 * n - 1) ELSE ~ TwiceLeq(2 * n - 1)
            /\ IF n % 2 = 0 THEN TwiceLeq(2 * n + 1) ELSE ~ LeqTwice(2 * n + 1)

\* int(seats * (2.0 / 3.0)): the share truncated instead of rounded.
RoundTwoThirdsDown(seats) == (2 * seats) \div 3

\* int(round(seats * (2.0 / 3.0)))
RoundTwoThirds(seats) == PyRound(FMulInt(FDiv(2, 3), seats), seats)

\* Lista incompleta splitting two seats one and one.
ListaIncompletaSplitTwo(votes, seats) ==
    IF seats <= 0 \/ Len(votes) = 0
    THEN [by_group |-> ZeroResult(votes), meta |-> [seats |-> seats, note |-> "sin asignacion"]]
    ELSE LET ordered == SortDesc(votes, PairBefore)
             first_gid == ordered[1][1]
             has_second == Len(ordered) > 1
             second_gid == IF has_second THEN ordered[2][1] ELSE 0
             share == IF RoundTwoThirds(seats) > seats THEN seats ELSE RoundTwoThirds(seats)
             first_share == IF seats = 3 THEN 2
                            ELSE IF seats = 2 THEN 1
                            ELSE IF seats = 1 THEN 1
                            ELSE IF share < 1 THEN 1 ELSE share
             second_share == IF seats = 3 THEN 1
                             ELSE IF seats = 2 THEN 1 ELSE IF seats = 1 THEN 0
                             ELSE seats - first_share
         IN  [by_group |-> [gid \in Gids(votes) |->
                               IF has_second /\ second_share > 0 /\ gid = second_gid
                               THEN second_share
                               ELSE IF gid = first_gid THEN first_share ELSE 0],
              meta |-> [seats |-> seats, ranking |-> [k \in 1..Len(Take(ordered, 2)) |-> ordered[k][1]]]]

_alloc_lista_incompleta(votes, seats) ==
    IF seats <= 0 \/ Len(votes) = 0
    THEN [by_group |-> ZeroResult(votes), meta |-> [seats |-> seats, note |-> "sin asignacion"]]
    ELSE LET ordered == SortDesc(votes, PairBefore)
             first_gid == ordered[1][1]
             has_second == Len(ordered) > 1
             second_gid == IF has_second THEN ordered[2][1] ELSE 0
             share == IF RoundTwoThirds(seats) > seats THEN seats ELSE RoundTwoThirds(seats)
             first_share == IF seats = 3 THEN 2
                            ELSE IF seats = 2 THEN 2
                            ELSE IF seats = 1 THEN 1
                            ELSE IF share < 1 THEN 1 ELSE share
             second_share == IF seats = 3 THEN 1
                             ELSE IF seats = 2 \/ seats = 1 THEN 0
                             ELSE seats - first_share
         IN  [by_group |-> [gid \in Gids(votes) |->
                               IF has_second /\ second_share > 0 /\ gid = second_gid
                               THEN second_share
                               ELSE IF gid = first_gid THEN first_share ELSE 0],
              meta |-> [seats |-> seats, ranking |-> [k \in 1..Len(Take(ordered, 2)) |-> ordered[k][1]]]]

\* Mayoria simple giving the winner one seat instead of all of them.
MayoriaSimpleOneSeat(votes, seats) ==
    IF seats <= 0 \/ Len(votes) = 0
    THEN [by_group |-> ZeroResult(votes), meta |-> [seats |-> seats, note |-> "sin asignacion"]]
    ELSE LET winner == (CHOOSE i \in 1..Len(votes) :
                            \A j \in 1..Len(votes) : j = i \/ PairBefore(votes[i], votes[j]))
         IN  [by_group |-> [gid \in Gids(votes) |-> IF gid = votes[winner][1] THEN 1 ELSE 0],
              meta |-> [seats |-> seats, winner |-> votes[winner][1]]]

\* Mayoria simple without the seats <= 0 guard.
MayoriaSimpleUnguarded(votes, seats) ==
    IF Len(votes) = 0
    THEN [by_group |-> ZeroResult(votes), meta |-> [seats |-> seats, note |-> "sin asignacion"]]
    ELSE LET winner == (CHOOSE i \in 1..Len(votes) :
                            \A j \in 1..Len(votes) : j = i \/ PairBefore(votes[i], votes[j]))
         IN  [by_group |-> [gid \in Gids(votes) |-> IF gid = votes[winner][1] THEN seats ELSE 0],
              meta |-> [seats |-> seats, winner |-> votes[winner][1]]]

_alloc_mayoria_simple(votes, seats) ==
    IF seats <= 0 \/ Len(votes) = 0
    THEN [by_group |-> ZeroResult(votes), meta |-> [seats |-> seats, note |-> "sin asignacion"]]
    ELSE LET winner == (CHOOSE i \in 1..Len(votes) :
                            \A j \in 1..Len(votes) : j = i \/ PairBefore(votes[i], votes[j]))
         IN  [by_group |-> [gid \in Gids(votes) |-> IF gid = votes[winner][1] THEN seats ELSE 0],
              meta |-> [seats |-> seats, winner |-> votes[winner][1]]]

_eval_balotaje(votes, seats) ==
    LET total == SumVotes(votes) IN
    IF total <= 0 \/ Len(votes) = 0
    THEN [by_group |-> ZeroResult(votes), meta |-> [seats |-> seats, note |-> "sin asignacion"]]
    ELSE LET ordered == SortDesc(votes, PairBefore)
             first_gid == ordered[1][1]
             first_votes == ordered[1][2]
             second_votes == IF Len(ordered) > 1 THEN ordered[2][2] ELSE 0
             p1 == FMulInt(FDiv(first_votes, total), 100)
             p2 == FMulInt(FDiv(second_votes, total), 100)
             lead == FSub(p1, p2)
             win_first_round == FGeq(p1, FromInt(45))
                                    \/ (FGeq(p1, FromInt(40)) /\ FGeq(lead, FromInt(10)))
             target_seats == IF seats > 0 THEN seats ELSE 1
         IN  [by_group |-> [gid \in Gids(votes) |->
                               IF win_first_round /\ gid = first_gid THEN target_seats ELSE 0],
              meta |-> [seats |-> seats, total_positive |-> total, first |-> first_gid,
                        win_first_round |-> win_first_round,
                        requires_runoff |-> ~ win_first_round]]

(***************************************************************************)
(* Python values, dicts and strings                                        *)
(* A dict is a function on its keys.  A string is the sequence of its      *)
(* characters; "A'" and "a'" stand for the accented capital and small a.   *)
(***************************************************************************)
None == [type |-> "NoneType"]
PyInt(n) == [type |-> "int", val |-> n]
\* a string that int() raises ValueError on
NotANumber == [type |-> "str", val |-> "x"]

EmptyDict == [k \in {} |-> 0]
Has(d, k) == k \in DOMAIN d
\* d.get(k, default)
Get(d, k, default) == IF k \in DOMAIN d THEN d[k] ELSE default
\* d | e
Merge(d, e) == [k \in DOMAIN d \cup DOMAIN e |-> IF k \in DOMAIN e THEN e[k] ELSE d[k]]

RECURSIVE SumInts(_)
SumInts(s) == IF Len(s) = 0 THEN 0 ELSE s[1] + SumInts(Tail(s))

Lower(c) ==
    CASE c = "A" -> "a"
      [] c = "A'" -> "a'"
      [] c = "C" -> "c"
      [] c = "P" -> "p"
      [] OTHER -> c

StrLower(s) == [i \in 1..Len(s) |-> Lower(s[i])]

StrStrip(s) ==
    LET solid == {i \in 1..Len(s) : s[i] # " "}
    IN  IF solid = {} THEN <<>> ELSE SubSeq(s, MinOf(solid), MaxOf(solid))

\* the repl table of _norm, applied character by character
Unaccent(c) == IF c = "a'" THEN "a" ELSE c

\* " ".join(s.split())
JoinSplit(s) ==
    LET kept == {i \in 1..Len(s) :
                    \/ s[i] # " "
                    \/ /\ i > 1
                       /\ s[i - 1] # " "
                       /\ \E j \in (i + 1)..Len(s) : s[j] # " "}
        nth(k) == CHOOSE i \in kept : Cardinality({j \in kept : j < i}) = k - 1
    IN  [k \in 1..Cardinality(kept) |-> s[nth(k)]]

_norm(s) ==
    LET stripped == StrStrip(StrLower(s))
    IN  JoinSplit([i \in 1..Len(stripped) |-> Unaccent(stripped[i])])

PyStr(s) == [type |-> "str", val |-> s]

\* The outcome of a call: a value returned or an exception raised.
Returned(v) == [raised |-> FALSE, value |-> v]
Raised(e) == [raised |-> TRUE, error |-> e]

\* _norm of calc.py on any Python value: s.lower() comes first, and only a
\* str has it.
NormCalc(v) ==
    IF v.type = "str" THEN Returned(_norm(v.val)) ELSE Raised("AttributeError")

\* _norm of utils.py: the same body.
NormUtils(v) ==
    IF v.type = "str" THEN Returned(_norm(v.val)) ELSE Raised("AttributeError")

\* _norm of get_seats: the isinstance test comes first.
NormGetSeats(v) ==
    IF v.type # "str" THEN Returned(<<>>) ELSE Returned(_norm(v.val))

(***************************************************************************)
(* Seats resolvers                                                         *)
(* The db entry of the office is a record with exists (the keys of the     *)
(* path are in db.json) and the entry's fields; the category node gives    *)
(* seats_jsonl (the path is set), exists (the file is there) and items     *)
(* (the dicts of its lines).                                               *)
(***************************************************************************)
\* calc.py imports no load_jsonl (lines 1-7): the call raises NameError.
LoadJsonlImported == FALSE

\* The total of the loop over the catalog items in calc.py.
RECURSIVE CatalogTotal(_, _)
CatalogTotal(items, cand_norm) ==
    IF Len(items) = 0 THEN 0
    ELSE LET it == items[1]
             nombre_cargo == _norm(Get(it, "nombre_cargo", <<>>))
             val == Get(it, "seats", None)
             add == IF nombre_cargo = <<>> \/ nombre_cargo \notin cand_norm THEN 0
                    ELSE IF val.type = "NoneType" THEN 1
                    ELSE IF val.type = "int" THEN val.val
                    ELSE 1
         IN  add + CatalogTotal(Tail(items), cand_norm)

_resolve_seats_from_jsonl_or_meta(entry, cat, office) ==
    IF ~ entry.exists THEN 0
    ELSE IF entry.seats.type = "int" /\ entry.seats.val > 0 THEN entry.seats.val
    ELSE IF ~ cat.seats_jsonl THEN 0
    ELSE IF ~ cat.exists THEN 0
    ELSE IF ~ LoadJsonlImported THEN 0
    ELSE LET candidates == SelectSeq(<<StrStrip(entry.nombre_cargo),
                                       StrStrip(entry.office_name),
                                       StrStrip(office)>>,
                                     LAMBDA c : c # <<>>)
             cand_norm == {_norm(candidates[i]) : i \in 1..Len(candidates)}
             total == CatalogTotal(cat.items, cand_norm)
         IN  IF Len(candidates) = 0 THEN 0
             ELSE IF total > 0 THEN total ELSE 0

\* A mode that keeps the last non-empty value, whatever its count.
ModeLast(values) ==
    LET given == SelectSeq(values, LAMBDA v : v # <<>>)
    IN  IF Len(given) = 0 THEN <<>> ELSE _norm(given[Len(given)])

\* max(freq, key=freq.get): the first key inserted among the most frequent.
_mode(values) ==
    LET given == SelectSeq(values, LAMBDA v : v # <<>>)
        vs == [i \in 1..Len(given) |-> _norm(given[i])]
        freq(i) == Cardinality({j \in 1..Len(vs) : vs[j] = vs[i]})
    IN  IF Len(vs) = 0 THEN <<>>
        ELSE vs[CHOOSE i \in 1..Len(vs) :
                    /\ \A j \in 1..Len(vs) : freq(j) <= freq(i)
                    /\ \A j \in 1..(i - 1) : freq(j) < freq(i)]

\* A predicate that takes every line as a line of the office.
MatchOfficeAny(item, office_n) == TRUE

_match_office(item, office_n) == _norm(Get(item, "nombre_cargo", <<>>)) = office_n

_match_category(item, category_n) ==
    IF Has(item, "category") THEN _norm(item.category) = category_n ELSE TRUE

_match_ctx(item, ctx_tipo, ctx_nombre) ==
    IF ctx_tipo = <<>> /\ ctx_nombre = <<>> THEN TRUE
    ELSE /\ ctx_tipo # <<>> =>
               _norm(Get(item, "tipo_escala_territorial", <<>>)) = ctx_tipo
         /\ ctx_nombre # <<>> =>
               _norm(Get(item, "nombre_escala_territorial", <<>>)) = ctx_nombre

\* int(it.get("cantidad_cargos", 0) or 0), 0 when int() raises
CantidadCargos(item) ==
    LET val == Get(item, "cantidad_cargos", PyInt(0))
    IN  IF val.type = "int" THEN val.val ELSE 0

\* seats_sum of one pass of the layer loop
LayerSum(items, require_category, require_ctx, office_n, category_n, ctx_tipo, ctx_nombre) ==
    SumInts([i \in 1..Len(items) |->
        IF ~ _match_office(items[i], office_n) THEN 0
        ELSE IF require_category /\ ~ _match_category(items[i], category_n) THEN 0
        ELSE IF require_ctx /\ ~ _match_ctx(items[i], ctx_tipo, ctx_nombre) THEN 0
        ELSE CantidadCargos(items[i])])

\* (require_category, require_ctx) in the order of the two nested loops
Layers == <<<<TRUE, TRUE>>, <<TRUE, FALSE>>, <<FALSE, TRUE>>, <<FALSE, FALSE>>>>

\* ctx_tipo and ctx_nombre of get_seats
CtxTipo(rows) ==
    _mode([i \in 1..Len(rows) |-> Get(rows[i], "tipo_escala_territorial", <<>>)])

CtxNombre(rows) ==
    _mode([i \in 1..Len(rows) |-> Get(rows[i], "nombre_escala_territorial", <<>>)])

get_seats(entry, cat, rows, election_category, office) ==
    LET ctx_tipo == CtxTipo(rows)
        ctx_nombre == CtxNombre(rows)
        seats_items == IF cat.seats_jsonl /\ cat.exists THEN cat.items ELSE <<>>
        sums == [k \in 1..Len(Layers) |->
                    LayerSum(seats_items, Layers[k][1], Layers[k][2],
                             _norm(office), _norm(election_category), ctx_tipo, ctx_nombre)]
        hits == {k \in 1..Len(Layers) : sums[k] > 0}
        fallback == IF entry.exists /\ entry.seats.type = "int" THEN entry.seats.val ELSE 0
    IN  IF hits # {} THEN sums[MinOf(hits)] ELSE fallback

(***************************************************************************)
(* Aggregation of the rows and the dispatch on the method name             *)
(***************************************************************************)
type_names == [k \in {1, 2, 3, 5, 6} |->
                  CASE k = 1 -> "impugnado" [] k = 2 -> "recurrido" [] k = 3 -> "comando"
                    [] k = 5 -> "en_blanco" [] k = 6 -> "nulo"]

\* int(r.get("vote_number") or 0) without the clamp.
VoteNumberUnclamped(r) ==
    Get(r, "vote_number", 0)

\* max(0, int(r.get("vote_number") or 0))
VoteNumber(r) ==
    LET vn == Get(r, "vote_number", 0) IN IF vn > 0 THEN vn ELSE 0

\* The empty string as a group_id: falsy, like None and like a missing key.
EmptyGroupId == 0 - 1

\* str(r.get("group_id") or "0")
GroupId(r) ==
    LET g == Get(r, "group_id", EmptyGroupId) IN IF g = EmptyGroupId THEN 0 ELSE g

\* positive_by_group after the rows, as the list of its (gid, votes) items in
\* insertion order; a missing or falsy group_id is group "0".
RECURSIVE PositiveByGroup(_)
PositiveByGroup(rows) ==
    IF Len(rows) = 0 THEN <<>>
    ELSE LET before == PositiveByGroup(SubSeq(rows, 1, Len(rows) - 1))
             r == rows[Len(rows)]
             gid == GroupId(r)
         IN  IF ~ (Has(r, "vote_type") /\ r.vote_type = 0) THEN before
             ELSE IF gid \in Gids(before)
             THEN [i \in 1..Len(before) |->
                     IF before[i][1] = gid
                     THEN <<gid, before[i][2] + VoteNumber(r)>>
                     ELSE before[i]]
             ELSE Append(before, <<gid, VoteNumber(r)>>)

\* others_totals built without the initial {name: 0 ...}: a key appears with
\* the first row of its type.
RECURSIVE OthersTotalsSparse(_)
OthersTotalsSparse(rows) ==
    IF Len(rows) = 0 THEN EmptyDict
    ELSE LET before == OthersTotalsSparse(SubSeq(rows, 1, Len(rows) - 1))
             r == rows[Len(rows)]
         IN  IF /\ Has(r, "vote_type")
                /\ r.vote_type # 0
                /\ r.vote_type \in DOMAIN type_names
             THEN LET name == type_names[r.vote_type]
                  IN  Merge(before, [n \in {name} |-> Get(before, name, 0) + VoteNumber(r)])
             ELSE before

\* others_totals after the rows: every name starts at 0, and each row of a
\* type other than 0 that type_names knows adds to its name.
RECURSIVE OthersTotals(_)
OthersTotals(rows) ==
    IF Len(rows) = 0 THEN [name \in {type_names[k] : k \in DOMAIN type_names} |-> 0]
    ELSE LET before == OthersTotals(SubSeq(rows, 1, Len(rows) - 1))
             r == rows[Len(rows)]
         IN  IF /\ Has(r, "vote_type")
                /\ r.vote_type # 0
                /\ r.vote_type \in DOMAIN type_names
             THEN LET name == type_names[r.vote_type]
                  IN  [before EXCEPT ![name] = @ + VoteNumber(r)]
             ELSE before

_aggregate_votes(rows) ==
    [positive_by_group |-> PositiveByGroup(rows), others_totals |-> OthersTotals(rows)]

\* A method argument: its text in lower case without surrounding blanks,
\* whether the argument has it in upper case, and whether it is padded with
\* blanks.  NoMethod is None.
NoMethod == [text |-> "", upper |-> FALSE, pad |-> FALSE]
\* A dispatch that does not test the method argument first.
TruthyAlways(m) == TRUE

Truthy(m) == m.text # "" \/ m.pad
\* method.strip().lower()
MethodLc(m) == [[m EXCEPT !.pad = FALSE] EXCEPT !.upper = FALSE]
IsOneOf(method_lc, texts) ==
    ~ method_lc.upper /\ ~ method_lc.pad /\ method_lc.text \in texts

DhontNames == {"d-hont", "dhont", "d'hont"}
HareNames == {"hare"}
ListaNames == {"lista-incompleta"}
MayoriaNames == {"mayoria-simple", "mayori'a-simple"}
BalotajeNames == {"balotaje", "ballotage"}

SeatsInfo(m, positive_by_group, s) ==
    LET method_lc == MethodLc(m)
        info(name, r) == [method |-> name, by_group |-> r.by_group, meta |-> r.meta]
    IN  IF ~ Truthy(m) THEN EmptyDict
        ELSE IF IsOneOf(method_lc, DhontNames)
        THEN info("d-hont", _alloc_dhondt(positive_by_group, s))
        ELSE IF IsOneOf(method_lc, HareNames)
        THEN info("hare", _alloc_hare(positive_by_group, s))
        ELSE IF IsOneOf(method_lc, ListaNames)
        THEN info("lista-incompleta", _alloc_lista_incompleta(positive_by_group, s))
        ELSE IF IsOneOf(method_lc, MayoriaNames)
        THEN info("mayoria-simple", _alloc_mayoria_simple(positive_by_group, s))
        ELSE IF IsOneOf(method_lc, BalotajeNames)
        THEN info("balotaje", _eval_balotaje(positive_by_group, s))
        ELSE [method |-> m, by_group |-> EmptyDict,
              meta |-> [error |-> "metodo no soportado"]]

\* seats_info or None
OrNone(seats_info) == IF DOMAIN seats_info # {} THEN seats_info ELSE None

\* all_block of do_calc
AllBlock(rows, seats_info) ==
    LET agg == _aggregate_votes(rows)
        total_positive == SumVotes(agg.positive_by_group)
        total_all == total_positive
                     + SumOver(agg.others_totals, DOMAIN agg.others_totals)
        block == Merge([positive |-> [by_group |-> agg.positive_by_group,
                                      all |-> total_positive]],
                       Merge(agg.others_totals, [all |-> total_all]))
    IN  IF DOMAIN seats_info # {} THEN Merge(block, [seats |-> seats_info]) ELSE block

(***************************************************************************)
(* State: one call of an allocation method on a votes dict                 *)
(***************************************************************************)
VARIABLES votes, seats, method, by_group, meta, raised,
          entry, catalog, resolved, pre, log, clock, response,
          db_json, pre_json, calls,
          norm_arg, norm_result,
          csv_files

allocVars == <<votes, seats, method, by_group, meta, raised>>
\* db.json and the preprocessed files as two concurrent calls of do_calc see
\* them, and what each call holds in memory.
concVars == <<db_json, pre_json, calls>>
\* The argument of a normalizer and the outcome of the call.
normVars == <<norm_arg, norm_result>>
\* The CSV files of FILES_DIR, by digest.
lifeVars == <<csv_files>>
calcVars == <<entry, pre, log, clock, response, concVars, normVars, lifeVars>>
vars == <<allocVars, catalog, resolved, calcVars>>

GroupIds == 1..NumGroups

\* The votes dicts over the group ids, items in ascending gid order.
RECURSIVE VotesDicts(_)
VotesDicts(n) ==
    IF n = 0 THEN {<<>>}
    ELSE LET rest == VotesDicts(n - 1)
         IN  rest \cup {Append(d, <<n, v>>) : d \in rest, v \in 0..MaxVotes}

NoMeta == [seats |-> 0, note |-> "none"]

\* raised records the last RaiseVotes: the group whose votes were raised and
\* the seats it held before.
NotRaised == [gid |-> 0, seats |-> 0]

\* The entry create_phase writes, with the seats value the db holds.
Entry(raw_seats, preprocessed_json) ==
    [exists |-> TRUE, seats |-> raw_seats, nombre_cargo |-> <<>>, office_name |-> <<>>,
     preprocessed_json |-> preprocessed_json, last_calc |-> 0]

NoEntry == [exists |-> FALSE]

NoCatalog == [seats_jsonl |-> FALSE, exists |-> FALSE, items |-> <<>>]

NoPayload == [exists |-> FALSE]
Payload(rows) == [exists |-> TRUE, rows |-> rows, calc |-> EmptyDict]

NotResolved == [by |-> "none", seats |-> 0]
NoResponse == [status |-> 0]

AllocIdle ==
    /\ votes = <<>>
    /\ seats = 0
    /\ method = "none"
    /\ by_group = <<>>
    /\ meta = NoMeta
    /\ raised = NotRaised

ResolverIdle ==
    /\ entry = NoEntry
    /\ catalog = NoCatalog
    /\ pre = NoPayload
    /\ resolved = NotResolved

NotNormalized == [by |-> "none"]

NormIdle ==
    /\ norm_arg = None
    /\ norm_result = NotNormalized

CalcIdle ==
    /\ log = <<>>
    /\ clock = 1
    /\ response = NoResponse
    /\ db_json = EmptyDict
    /\ pre_json = EmptyDict
    /\ calls = EmptyDict
    /\ NormIdle
    /\ csv_files = {}

Init ==
    /\ votes \in VotesDicts(NumGroups)
    /\ seats \in (0 - MaxNegSeats)..MaxSeats
    /\ method = "none"
    /\ by_group = <<>>
    /\ meta = NoMeta
    /\ raised = NotRaised
    /\ ResolverIdle
    /\ CalcIdle

Apply(name, r) ==
    /\ method' = name
    /\ by_group' = r.by_group
    /\ meta' = r.meta

AllocDhondt ==
    /\ method = "none"
    /\ Apply("d-hont", _alloc_dhondt(votes, seats))
    /\ UNCHANGED <<votes, seats, raised, catalog, resolved, calcVars>>

AllocHare ==
    /\ method = "none"
    /\ Apply("hare", _alloc_hare(votes, seats))
    /\ UNCHANGED <<votes, seats, raised, catalog, resolved, calcVars>>

AllocListaIncompleta ==
    /\ method = "none"
    /\ Apply("lista-incompleta", _alloc_lista_incompleta(votes, seats))
    /\ UNCHANGED <<votes, seats, raised, catalog, resolved, calcVars>>

AllocMayoriaSimple ==
    /\ method = "none"
    /\ Apply("mayoria-simple", _alloc_mayoria_simple(votes, seats))
    /\ UNCHANGED <<votes, seats, raised, catalog, resolved, calcVars>>

EvalBalotaje ==
    /\ method = "none"
    /\ Apply("balotaje", _eval_balotaje(votes, seats))
    /\ UNCHANGED <<votes, seats, raised, catalog, resolved, calcVars>>

\* One more vote for one group, and the same D'Hondt allocation run again.
RaiseVotes(i) ==
    /\ method = "d-hont"
    /\ votes[i][2] < MaxVotes
    /\ votes' = [votes EXCEPT ![i] = <<votes[i][1], votes[i][2] + 1>>]
    /\ Apply("d-hont", _alloc_dhondt(votes', seats))
    /\ raised' = [gid |-> votes[i][1], seats |-> by_group[votes[i][1]]]
    /\ UNCHANGED <<seats, catalog, resolved, calcVars>>

Next ==
    \/ AllocDhondt
    \/ AllocHare
    \/ AllocListaIncompleta
    \/ AllocMayoriaSimple
    \/ EvalBalotaje
    \/ \E i \in 1..Len(votes) : RaiseVotes(i)

Spec == Init /\ [][Next]_vars

(***************************************************************************)
(* Repeated calls of the allocation methods on one votes mapping, built in *)
(* any insertion order                                                     *)
(***************************************************************************)
NumOrderGroups == 2
MaxOrderVotes == 2
MaxOrderSeats == 3

\* The votes dicts over the first n group ids, inserted in ascending order.
RECURSIVE AscendingDicts(_)
AscendingDicts(n) ==
    IF n = 0 THEN {<<>>}
    ELSE LET rest == AscendingDicts(n - 1)
         IN  rest \cup {Append(d, <<n, v>>) : d \in rest, v \in 0..MaxOrderVotes}

\* The same mapping: the same groups with the same votes.
SameMapping(a, b) ==
    /\ Gids(a) = Gids(b)
    /\ \A g \in Gids(a) : VotesOf(a, g) = VotesOf(b, g)

InitOrder ==
    /\ votes \in AscendingDicts(NumOrderGroups)
    /\ seats \in 0..MaxOrderSeats
    /\ method = "none"
    /\ by_group = <<>>
    /\ meta = NoMeta
    /\ raised = NotRaised
    /\ ResolverIdle
    /\ CalcIdle

\* A call of one allocation method on the current mapping; the result of the
\* call before it, if any, is what by_group and meta hold until then.
CallDhondt ==
    /\ Apply("d-hont", _alloc_dhondt(votes, seats))
    /\ UNCHANGED <<votes, seats, raised, catalog, resolved, calcVars>>

CallHare ==
    /\ Apply("hare", _alloc_hare(votes, seats))
    /\ UNCHANGED <<votes, seats, raised, catalog, resolved, calcVars>>

CallListaIncompleta ==
    /\ Apply("lista-incompleta", _alloc_lista_incompleta(votes, seats))
    /\ UNCHANGED <<votes, seats, raised, catalog, resolved, calcVars>>

CallMayoriaSimple ==
    /\ Apply("mayoria-simple", _alloc_mayoria_simple(votes, seats))
    /\ UNCHANGED <<votes, seats, raised, catalog, resolved, calcVars>>

CallBalotaje ==
    /\ Apply("balotaje", _eval_balotaje(votes, seats))
    /\ UNCHANGED <<votes, seats, raised, catalog, resolved, calcVars>>

\* The caller builds the same mapping again, its groups inserted in another
\* order.
Reinsert ==
    /\ \E f \in Permutations(1..Len(votes)) :
          /\ votes' = [i \in 1..Len(votes) |-> votes[f[i]]]
          /\ votes' # votes
    /\ UNCHANGED <<seats, method, by_group, meta, raised, catalog, resolved, calcVars>>

NextOrder ==
    \/ CallDhondt
    \/ CallHare
    \/ CallListaIncompleta
    \/ CallMayoriaSimple
    \/ CallBalotaje
    \/ Reinsert

SpecOrder == InitOrder /\ [][NextOrder]_vars

(***************************************************************************)
(* Balotaje on close three-way races                                       *)
(***************************************************************************)
MinBalotajeVotes == 25
MaxBalotajeVotes == 37

InitBalotaje ==
    /\ votes \in {<<<<1, a>>, <<2, b>>, <<3, c>>>> :
                     a \in MinBalotajeVotes..MaxBalotajeVotes,
                     b \in MinBalotajeVotes..MaxBalotajeVotes,
                     c \in MinBalotajeVotes..MaxBalotajeVotes}
    /\ seats \in {0, 1}
    /\ method = "none"
    /\ by_group = <<>>
    /\ meta = NoMeta
    /\ raised = NotRaised
    /\ ResolverIdle
    /\ CalcIdle

NextBalotaje == EvalBalotaje

SpecBalotaje == InitBalotaje /\ [][NextBalotaje]_vars

(***************************************************************************)
(* Seat resolution for one office                                          *)
(***************************************************************************)
MaxItems == 2
MaxRows == 2

Office == <<"A">>
ElectionCategory == <<"c">>

RECURSIVE SeqsUpTo(_, _)
SeqsUpTo(S, n) ==
    IF n = 0 THEN {<<>>}
    ELSE LET shorter == SeqsUpTo(S, n - 1)
         IN  shorter \cup {Append(s, x) : s \in shorter, x \in S}

\* The lines of a seat catalog: the office name, the territorial scale, and
\* optionally the category and the seat counts.
CatalogItems ==
    {Merge(Merge(base, category), counts) :
        base \in [nombre_cargo : {<<"A'", " ">>, <<"b">>},
                  tipo_escala_territorial : {<<"p">>, <<"q">>},
                  nombre_escala_territorial : {<<"x">>}],
        category \in {EmptyDict, [category |-> <<"C">>], [category |-> <<"b">>]},
        counts \in {EmptyDict, [cantidad_cargos |-> PyInt(2), seats |-> PyInt(3)]}}

Catalogs ==
    {NoCatalog, [seats_jsonl |-> TRUE, exists |-> FALSE, items |-> <<>>]}
    \cup {[seats_jsonl |-> TRUE, exists |-> TRUE, items |-> items] :
             items \in SeqsUpTo(CatalogItems, MaxItems)}

TerritoryRows ==
    {[vote_type |-> 0, vote_number |-> 1, group_id |-> 1,
      tipo_escala_territorial |-> t, nombre_escala_territorial |-> <<"x">>] :
        t \in {<<"P">>, <<"q">>}}

InitSeats ==
    /\ entry \in {Entry(raw, TRUE) : raw \in {None, PyInt(0), PyInt(5), PyInt(-1), NotANumber}}
    /\ catalog \in Catalogs
    /\ pre \in {Payload(rows) : rows \in SeqsUpTo(TerritoryRows, MaxRows)}
    /\ resolved = NotResolved
    /\ AllocIdle
    /\ CalcIdle

\* The resolver do_calc calls.
ResolveSeats ==
    /\ resolved.by = "none"
    /\ resolved' = [by |-> "_resolve_seats_from_jsonl_or_meta",
                    seats |-> _resolve_seats_from_jsonl_or_meta(entry, catalog, Office)]
    /\ UNCHANGED <<allocVars, catalog, calcVars>>

GetSeats ==
    /\ resolved.by = "none"
    /\ resolved' = [by |-> "get_seats",
                    seats |-> get_seats(entry, catalog, pre.rows, ElectionCategory, Office),
                    ctx_tipo |-> CtxTipo(pre.rows),
                    ctx_nombre |-> CtxNombre(pre.rows)]
    /\ UNCHANGED <<allocVars, catalog, calcVars>>

NextSeats == ResolveSeats \/ GetSeats

SpecSeats == InitSeats /\ [][NextSeats]_vars

(***************************************************************************)
(* do_calc on one office                                                   *)
(***************************************************************************)
MaxCalcRows == 2

MethodTexts ==
    DhontNames \cup HareNames \cup ListaNames \cup MayoriaNames \cup BalotajeNames
    \cup {"d-hondt", ""}

\* None, and every text plain, in upper case, padded, or both; the empty
\* text has no upper case.
MethodInputs ==
    {m \in [text : MethodTexts, upper : BOOLEAN, pad : BOOLEAN] : m.text = "" => ~ m.upper}

VoteRows ==
    [vote_type : {0, 6}, vote_number : {1, 2}, group_id : {1, 2},
     tipo_escala_territorial : {<<"p">>}, nombre_escala_territorial : {<<"x">>}]

InitCalc ==
    /\ entry \in {NoEntry} \cup {Entry(raw, p) : raw \in {None, PyInt(3)}, p \in BOOLEAN}
    /\ catalog \in {NoCatalog,
                    [seats_jsonl |-> TRUE, exists |-> TRUE,
                     items |-> <<[nombre_cargo |-> <<"A">>, seats |-> PyInt(2)]>>]}
    /\ pre \in {NoPayload} \cup {Payload(rows) : rows \in SeqsUpTo(VoteRows, MaxCalcRows)}
    /\ resolved = NotResolved
    /\ AllocIdle
    /\ CalcIdle

\* A rejection that leaves a line in the contest log.
HTTPExceptionLogged(status, detail) ==
    /\ response' = [status |-> status, detail |-> detail]
    /\ log' = Append(log, [msg |-> detail])
    /\ UNCHANGED <<entry, pre, clock>>

\* raise HTTPException(status, detail): the call ends there.
HTTPException(status, detail) ==
    /\ response' = [status |-> status, detail |-> detail]
    /\ UNCHANGED <<entry, pre, log, clock>>

do_calc(m) ==
    IF ~ entry.exists
    THEN HTTPException(404, "Entrada no encontrada en db.json")
    ELSE IF ~ entry.preprocessed_json
    THEN HTTPException(400, "Falta preprocesado")
    ELSE IF ~ pre.exists
    THEN HTTPException(400, "Archivo preprocesado no encontrado")
    ELSE LET agg == _aggregate_votes(pre.rows)
             s == _resolve_seats_from_jsonl_or_meta(entry, catalog, Office)
             seats_info == SeatsInfo(m, agg.positive_by_group, s)
         IN  /\ pre' = [pre EXCEPT !.calc = [all |-> AllBlock(pre.rows, seats_info)]]
             /\ entry' = [entry EXCEPT !.last_calc = clock]
             /\ clock' = clock + 1
             /\ log' = Append(log, [msg |-> "Calc OK", rows |-> Len(pre.rows),
                                    groups |-> Len(agg.positive_by_group),
                                    method |-> m, seats |-> s])
             /\ response' = [status |-> 200, ok |-> TRUE, stage |-> "calc", method |-> m,
                             groups |-> Len(agg.positive_by_group),
                             totals |-> agg.others_totals, seats |-> s,
                             assignment |-> OrNone(seats_info)]

DoCalc(m) ==
    /\ response = NoResponse
    /\ do_calc(m)
    /\ UNCHANGED <<allocVars, catalog, resolved, concVars, normVars, lifeVars>>

NextCalc == \E m \in MethodInputs : DoCalc(m)

SpecCalc == InitCalc /\ [][NextCalc]_vars

(***************************************************************************)
(* Aggregation of arbitrary rows: do_calc without a method                 *)
(***************************************************************************)
MaxAggRows == 2

\* Rows as the preprocessed file may hold them: any of the three keys may be
\* missing, vote_type is any code 0..6, the count may be negative, the group
\* id may be empty.
AggRows ==
    {Merge(Merge(t, n), g) :
        t \in {EmptyDict} \cup {[vote_type |-> k] : k \in 0..6},
        n \in {EmptyDict} \cup {[vote_number |-> v] : v \in {0 - 1, 2}},
        g \in {EmptyDict} \cup {[group_id |-> x] : x \in {EmptyGroupId, 1}}}

InitAggregate ==
    /\ entry = Entry(None, TRUE)
    /\ catalog = NoCatalog
    /\ pre \in {Payload(rows) : rows \in SeqsUpTo(AggRows, MaxAggRows)}
    /\ resolved = NotResolved
    /\ AllocIdle
    /\ CalcIdle

NextAggregate == DoCalc(NoMethod)

SpecAggregate == InitAggregate /\ [][NextAggregate]_vars

(***************************************************************************)
(* The life of one contest entry: create_phase, upsert_url, do_parse,      *)
(* do_preprocess and do_calc in any order, any number of times             *)
(***************************************************************************)
\* Calls that write a timestamp are counted by the clock; at most this many.
MaxLifeOps == 5

\* The CSVs a download may deliver, named by their sha256: 1 has the columns
\* and rows both do_parse and do_preprocess ask for, 2 passes
\* parse_votes_from_csv but holds no row do_preprocess keeps, 3 lacks the
\* columns or the POSITIVO rows parse_votes_from_csv asks for.
Digests == {1, 2, 3}
NoDigest == 0

ValidForParse(d) == d \in {1, 2}

\* The rows do_preprocess keeps of the CSV with digest d.
PreprocessedRows(d) ==
    IF d = 1
    THEN <<[vote_type |-> 0, vote_number |-> 2, group_id |-> 1],
           [vote_type |-> 6, vote_number |-> 1, group_id |-> 2]>>
    ELSE <<>>

\* entries[office] of create_phase: url, seats, base_sha256, last_processed
\* and last_calc are None, file_path, preprocessed_json and last_preprocess
\* are absent.
NewEntry ==
    [exists |-> TRUE, seats |-> None, nombre_cargo |-> <<>>, office_name |-> <<>>,
     url |-> FALSE, base_sha256 |-> NoDigest, file_path |-> NoDigest,
     last_processed |-> 0, preprocessed_json |-> FALSE, last_preprocess |-> 0,
     last_calc |-> 0]

LifeMethods == {m \in MethodInputs : m.text \in {"", "dhont"} /\ ~ m.upper /\ ~ m.pad}

InitLifecycle ==
    /\ entry = NoEntry
    /\ catalog = NoCatalog
    /\ pre = NoPayload
    /\ resolved = NotResolved
    /\ AllocIdle
    /\ CalcIdle

lifeFrame == <<allocVars, catalog, resolved, concVars, normVars>>

\* The office is created once; an office already in entries is skipped.
CreatePhase ==
    /\ entry' = IF entry.exists THEN entry ELSE NewEntry
    /\ response' = [status |-> 303, stage |-> "create_phase"]
    /\ UNCHANGED <<pre, log, clock, csv_files, lifeFrame>>

\* meta["url"] = (url or "").strip() or None
UpsertUrl(url) ==
    /\ IF ~ entry.exists
       THEN HTTPException(404, "Entrada no encontrada; asegurese de haber creado la fase")
       ELSE /\ entry' = [entry EXCEPT !.url = url]
            /\ response' = [status |-> 303, stage |-> "upsert_url"]
            /\ UNCHANGED <<pre, log, clock>>
    /\ UNCHANGED <<csv_files, lifeFrame>>

\* A version of the failure of parse_votes_from_csv that still records the
\* file in the entry.
ParseVotesFailsRecorded(d) ==
    /\ response' = [status |-> 400, detail |-> "CSV invalido"]
    /\ entry' = [entry EXCEPT !.base_sha256 = d, !.file_path = d]
    /\ UNCHANGED <<pre, log, clock>>

\* parse_votes_from_csv raises: the CSV is on disk, the entry is untouched.
ParseVotesFails(d) == HTTPException(400, "CSV invalido")

DoParse ==
    /\ clock <= MaxLifeOps
    /\ IF ~ entry.exists
       THEN HTTPException(404, "Entrada no encontrada en db.json") /\ UNCHANGED csv_files
       ELSE IF ~ entry.url
       THEN HTTPException(400, "No hay URL registrada para esta entrada")
            /\ UNCHANGED csv_files
       ELSE \/ HTTPException(400, "Descarga fallo") /\ UNCHANGED csv_files
            \/ \E d \in Digests :
                 /\ csv_files' = csv_files \cup {d}
                 /\ IF ~ ValidForParse(d)
                    THEN ParseVotesFails(d)
                    ELSE /\ entry' = [entry EXCEPT !.base_sha256 = d,
                                                   !.last_processed = clock,
                                                   !.file_path = d]
                         /\ clock' = clock + 1
                         /\ response' = [status |-> 200, stage |-> "parse"]
                         /\ UNCHANGED <<pre, log>>
    /\ UNCHANGED lifeFrame

DoPreprocess ==
    /\ clock <= MaxLifeOps
    /\ IF ~ entry.exists
       THEN HTTPException(404, "Entrada no encontrada en db.json")
       ELSE IF entry.base_sha256 = NoDigest \/ entry.file_path = NoDigest
       THEN HTTPException(400, "Falta realizar el parseo previo")
       ELSE IF entry.file_path \notin csv_files
       THEN HTTPException(400, "CSV base no encontrado")
       ELSE IF PreprocessedRows(entry.file_path) = <<>>
       THEN HTTPException(400, "CSV sin filas validas para preprocesar")
       ELSE /\ pre' = Payload(PreprocessedRows(entry.file_path))
            /\ entry' = [entry EXCEPT !.preprocessed_json = TRUE,
                                      !.last_preprocess = clock]
            /\ clock' = clock + 1
            /\ log' = Append(log, [msg |-> "Preprocess OK",
                                   rows |-> Len(PreprocessedRows(entry.file_path))])
            /\ response' = [status |-> 200, ok |-> TRUE, stage |-> "preprocess",
                            rows |-> Len(PreprocessedRows(entry.file_path))]
    /\ UNCHANGED <<csv_files, lifeFrame>>

DoCalcAgain ==
    /\ clock <= MaxLifeOps
    /\ \E m \in LifeMethods : do_calc(m)
    /\ UNCHANGED <<csv_files, lifeFrame>>

NextLifecycle ==
    \/ CreatePhase
    \/ \E url \in BOOLEAN : UpsertUrl(url)
    \/ DoParse
    \/ DoPreprocess
    \/ DoCalcAgain

SpecLifecycle == InitLifecycle /\ [][NextLifecycle]_vars

(***************************************************************************)
(* Lista incompleta on larger seat counts                                  *)
(***************************************************************************)
MaxListaSeats == 9

InitLista ==
    /\ votes \in VotesDicts(NumGroups)
    /\ seats \in 1..MaxListaSeats
    /\ method = "none"
    /\ by_group = <<>>
    /\ meta = NoMeta
    /\ raised = NotRaised
    /\ ResolverIdle
    /\ CalcIdle

NextLista == AllocListaIncompleta

SpecLista == InitLista /\ [][NextLista]_vars

(***************************************************************************)
(* Two calls of do_calc on two contests of one db.json, step by step       *)
(***************************************************************************)
MaxConcRows == 1

\* The two contests: two offices of one phase, each with its own
\* preprocessed file and log file, both entries in the one db.json.
Contests == {1, 2}

ConcRows == [vote_type : {0}, vote_number : {1, 2}, group_id : {1, 2}]

ConcMethods == {NoMethod, [text |-> "hare", upper |-> FALSE, pad |-> FALSE]}

NotCalled(m) ==
    [pc |-> "load_db", method |-> m, db |-> EmptyDict, payload |-> NoPayload,
     all_block |-> EmptyDict, seats |-> 0, response |-> NoResponse]

InitConcurrent ==
    /\ db_json = [c \in Contests |-> Entry(PyInt(2), TRUE)]
    /\ pre_json \in [Contests -> {Payload(rows) : rows \in SeqsUpTo(ConcRows, MaxConcRows)}]
    /\ calls \in [Contests -> {NotCalled(m) : m \in ConcMethods}]
    /\ log = <<>>
    /\ clock = 1
    /\ response = NoResponse
    /\ NormIdle
    /\ csv_files = {}
    /\ AllocIdle
    /\ ResolverIdle

Return(c, r) == calls' = [calls EXCEPT ![c].pc = "done", ![c].response = r]

\* db = load_db() and the lookup of the entry.
LoadDb(c) ==
    /\ calls[c].pc = "load_db"
    /\ IF ~ (c \in DOMAIN db_json /\ db_json[c].exists)
       THEN Return(c, [status |-> 404, detail |-> "Entrada no encontrada en db.json"])
       ELSE IF ~ db_json[c].preprocessed_json
       THEN Return(c, [status |-> 400, detail |-> "Falta preprocesado"])
       ELSE calls' = [calls EXCEPT ![c].pc = "read_pre", ![c].db = db_json]
    /\ UNCHANGED <<allocVars, catalog, resolved, normVars, lifeVars, entry, pre, log, clock, response,
                   db_json, pre_json>>

\* payload = json.loads(pre_path.read_text()), then the aggregation, the
\* seats and the allocation, all in memory.
ReadPre(c) ==
    /\ calls[c].pc = "read_pre"
    /\ IF ~ pre_json[c].exists
       THEN Return(c, [status |-> 400, detail |-> "Archivo preprocesado no encontrado"])
       ELSE LET rows == pre_json[c].rows
                agg == _aggregate_votes(rows)
                s == _resolve_seats_from_jsonl_or_meta(calls[c].db[c], catalog, Office)
                seats_info == SeatsInfo(calls[c].method, agg.positive_by_group, s)
            IN  calls' = [calls EXCEPT ![c].pc = "write_pre",
                                       ![c].payload = pre_json[c],
                                       ![c].all_block = AllBlock(rows, seats_info),
                                       ![c].seats = s]
    /\ UNCHANGED <<allocVars, catalog, resolved, normVars, lifeVars, entry, pre, log, clock, response,
                   db_json, pre_json>>

\* pre_path.write_text(json.dumps(payload))
WritePre(c) ==
    /\ calls[c].pc = "write_pre"
    /\ pre_json' = [pre_json EXCEPT ![c] =
                       [calls[c].payload EXCEPT !.calc = [all |-> calls[c].all_block]]]
    /\ calls' = [calls EXCEPT ![c].pc = "save_db"]
    /\ UNCHANGED <<allocVars, catalog, resolved, normVars, lifeVars, entry, pre, log, clock, response, db_json>>

\* meta["last_calc"] = _now_iso(); save_db(db): the whole db the call loaded
\* goes back to db.json.
SaveDb(c) ==
    /\ calls[c].pc = "save_db"
    /\ LET db == [calls[c].db EXCEPT ![c].last_calc = clock]
       IN  /\ db_json' = db
           /\ calls' = [calls EXCEPT ![c].pc = "log_append", ![c].db = db]
    /\ clock' = clock + 1
    /\ UNCHANGED <<allocVars, catalog, resolved, normVars, lifeVars, entry, pre, log, response, pre_json>>

\* log_append(...) and the return value.
LogAppend(c) ==
    /\ calls[c].pc = "log_append"
    /\ LET rows == calls[c].payload.rows
           agg == _aggregate_votes(rows)
           seats_info == IF Has(calls[c].all_block, "seats")
                         THEN calls[c].all_block.seats ELSE EmptyDict
       IN  /\ log' = Append(log, [contest |-> c, msg |-> "Calc OK", rows |-> Len(rows),
                                  groups |-> Len(agg.positive_by_group),
                                  method |-> calls[c].method, seats |-> calls[c].seats])
           /\ Return(c, [status |-> 200, ok |-> TRUE, stage |-> "calc",
                         method |-> calls[c].method,
                         groups |-> Len(agg.positive_by_group),
                         totals |-> agg.others_totals, seats |-> calls[c].seats,
                         assignment |-> OrNone(seats_info)])
    /\ UNCHANGED <<allocVars, catalog, resolved, normVars, lifeVars, entry, pre, clock, response,
                   db_json, pre_json>>

NextConcurrent ==
    \E c \in Contests :
        \/ LoadDb(c)
        \/ ReadPre(c)
        \/ WritePre(c)
        \/ SaveDb(c)
        \/ LogAppend(c)

SpecConcurrent == InitConcurrent /\ [][NextConcurrent]_vars

(***************************************************************************)
(* The normalizers on any Python value                                     *)
(***************************************************************************)
MaxNormLen == 3

NormChars == {"A", "a'", " ", "b"}

NormArgs ==
    {None, PyInt(0), PyInt(1)}
    \cup {PyStr(t) : t \in SeqsUpTo(NormChars, MaxNormLen)}

InitNorm ==
    /\ norm_arg \in NormArgs
    /\ norm_result = NotNormalized
    /\ entry = NoEntry
    /\ catalog = NoCatalog
    /\ pre = NoPayload
    /\ resolved = NotResolved
    /\ log = <<>>
    /\ clock = 1
    /\ response = NoResponse
    /\ db_json = EmptyDict
    /\ pre_json = EmptyDict
    /\ calls = EmptyDict
    /\ csv_files = {}
    /\ AllocIdle

CallNormCalc ==
    /\ norm_result = NotNormalized
    /\ norm_result' = Merge([by |-> "calc._norm"], NormCalc(norm_arg))
    /\ UNCHANGED <<allocVars, catalog, resolved, entry, pre, log, clock, response,
                   concVars, lifeVars, norm_arg>>

CallNormUtils ==
    /\ norm_result = NotNormalized
    /\ norm_result' = Merge([by |-> "utils._norm"], NormUtils(norm_arg))
    /\ UNCHANGED <<allocVars, catalog, resolved, entry, pre, log, clock, response,
                   concVars, lifeVars, norm_arg>>

CallNormGetSeats ==
    /\ norm_result = NotNormalized
    /\ norm_result' = Merge([by |-> "get_seats._norm"], NormGetSeats(norm_arg))
    /\ UNCHANGED <<allocVars, catalog, resolved, entry, pre, log, clock, response,
                   concVars, lifeVars, norm_arg>>

NextNorm ==
    \/ CallNormCalc
    \/ CallNormUtils
    \/ CallNormGetSeats

SpecNorm == InitNorm /\ [][NextNorm]_vars

(***************************************************************************)
(* The territorial context of get_seats                                    *)
(***************************************************************************)
MaxCtxRows == 3

\* Vote rows whose scale type is empty, blank, or one of two types in
\* several spellings, and whose scale name is absent or given.
CtxRows ==
    {Merge([vote_type |-> 0, vote_number |-> 1, group_id |-> 1,
            tipo_escala_territorial |-> t], n) :
        t \in {<<>>, <<" ">>, <<"P">>, <<"p", " ">>, <<"q">>},
        n \in {EmptyDict, [nombre_escala_territorial |-> <<"x">>]}}

\* Catalog lines of the office, for two scale types and two scale names.
CtxItems ==
    {[nombre_cargo |-> Office, tipo_escala_territorial |-> t,
      nombre_escala_territorial |-> n, cantidad_cargos |-> PyInt(2)] :
        t \in {<<"p">>, <<"q">>}, n \in {<<"x">>, <<"y">>}}
    \ {[nombre_cargo |-> Office, tipo_escala_territorial |-> <<"q">>,
        nombre_escala_territorial |-> <<"y">>, cantidad_cargos |-> PyInt(2)]}

InitContext ==
    /\ entry = Entry(None, TRUE)
    /\ catalog \in {[seats_jsonl |-> TRUE, exists |-> TRUE, items |-> items] :
                       items \in SeqsUpTo(CtxItems, MaxItems)}
    /\ pre \in {Payload(rows) : rows \in SeqsUpTo(CtxRows, MaxCtxRows)}
    /\ resolved = NotResolved
    /\ AllocIdle
    /\ CalcIdle

NextContext == GetSeats

SpecContext == InitContext /\ [][NextContext]_vars

(***************************************************************************)
(* Hare on two groups with larger vote counts                              *)
(***************************************************************************)
MaxHareVotes == 15
MaxHareSeats == 6

InitHare ==
    /\ votes \in {<<<<1, a>>, <<2, b>>>> : a, b \in 0..MaxHareVotes}
    /\ seats \in 1..MaxHareSeats
    /\ method = "none"
    /\ by_group = <<>>
    /\ meta = NoMeta
    /\ raised = NotRaised
    /\ ResolverIdle
    /\ CalcIdle

NextHare == AllocHare

SpecHare == InitHare /\ [][NextHare]_vars

(***************************************************************************)
(* Properties                                                              *)
(***************************************************************************)
AllZero(f) == \A gid \in DOMAIN f : f[gid] = 0
Allocated == method # "none"

\* C1 as stated: for every non-empty votes dict, all-zero totals included,
\* and seats > 0, D'Hondt and Hare award exactly seats seats.
C1_Original ==
    (method \in {"d-hont", "hare"} /\ Len(votes) > 0 /\ seats > 0)
        => SumSeats(by_group) = seats

\* C1 amended: with seats > 0 and at least one positive total, D'Hondt and
\* Hare award exactly seats seats; with all totals zero Hare awards none.
C1_SumEqualsSeats ==
    /\ (method \in {"d-hont", "hare"} /\ seats > 0 /\ SumVotes(votes) > 0)
           => SumSeats(by_group) = seats
    /\ (method = "hare" /\ seats > 0 /\ SumVotes(votes) = 0) => AllZero(by_group)

C1_Witness ==
    /\ method = "hare" /\ seats >= 2 /\ Len(votes) >= 2 /\ SumVotes(votes) > 0
    /\ meta.remaining_after_floor > 0
    /\ SumSeats(by_group) = seats

\* C2 as stated: every method (Balotaje unless it requires a runoff) awards
\* exactly seats seats when seats > 0 and some group has positive votes, for
\* any number of groups.
C2_Original ==
    (/\ Allocated /\ seats > 0 /\ SumVotes(votes) > 0
     /\ ~ (method = "balotaje" /\ meta.requires_runoff))
        => SumSeats(by_group) = seats

\* C2 amended: as stated, except that Lista Incompleta needs two groups or
\* seats <= 2; with one group and seats >= 3 it awards fewer than seats.
C2_SeatsAwarded ==
    /\ (/\ Allocated /\ seats > 0 /\ SumVotes(votes) > 0
        /\ ~ (method = "balotaje" /\ meta.requires_runoff)
        /\ method = "lista-incompleta" => (Len(votes) >= 2 \/ seats <= 2))
           => SumSeats(by_group) = seats
    /\ (method = "lista-incompleta" /\ Len(votes) = 1 /\ seats >= 3)
           => SumSeats(by_group) < seats

C2_Witness ==
    /\ method = "lista-incompleta" /\ Len(votes) >= 2 /\ seats >= 4
    /\ SumVotes(votes) > 0
    /\ SumSeats(by_group) = seats

\* C6: raising one group's votes, the others fixed, never lowers the seats
\* D'Hondt awards to that group.
C6_DhondtMonotonic ==
    raised.gid # 0 => by_group[raised.gid] >= raised.seats

C6_Witness ==
    /\ raised.gid # 0 /\ Len(votes) >= 2
    /\ by_group[raised.gid] > raised.seats

\* C7: in Hare the floor step assigns at most seats; the largest-remainder
\* pass then awards exactly seats - assigned more seats, at most one per
\* group, and none when assigned >= seats.
C7_HareRemainderPass ==
    (method = "hare" /\ seats > 0 /\ SumVotes(votes) > 0) =>
        LET fl == HareFloor(votes, seats)
            assigned == meta.assigned_floor
        IN  /\ assigned = SumFloor(fl)
            /\ assigned <= seats
            /\ SumSeats(by_group) - assigned =
                   (IF assigned < seats THEN seats - assigned ELSE 0)
            /\ \A i \in 1..Len(fl) : by_group[fl[i].gid] - fl[i].s \in {0, 1}

C7_Witness ==
    /\ method = "hare" /\ seats > 0 /\ Len(votes) = 3
    /\ SumVotes(votes) > 0
    /\ meta.assigned_floor > 0 /\ meta.assigned_floor < seats
    /\ SumSeats(by_group) - meta.assigned_floor = seats - meta.assigned_floor

\* C8 as stated: Balotaje declares a first-round win exactly when the top
\* group's share is >= 45%, or >= 40% with a lead of >= 10 points; the winner
\* gets seats (1 if seats <= 0), everybody else 0; without a win everybody
\* gets 0; requires_runoff is the negation of win_first_round.
C8_Original ==
    (method = "balotaje" /\ SumVotes(votes) > 0) =>
        LET total == SumVotes(votes)
            ordered == SortDesc(votes, PairBefore)
            first == ordered[1][2]
            second == IF Len(ordered) > 1 THEN ordered[2][2] ELSE 0
            win == \/ 100 * first >= 45 * total
                   \/ 100 * first >= 40 * total /\ 100 * (first - second) >= 10 * total
        IN  /\ meta.win_first_round = win
            /\ meta.requires_runoff = ~ meta.win_first_round
            /\ \A gid \in DOMAIN by_group :
                   by_group[gid] = IF win /\ gid = ordered[1][1]
                                   THEN (IF seats > 0 THEN seats ELSE 1) ELSE 0

\* C9 as stated: with seats <= 0 every method awards 0 to every group.
C9_Original ==
    (Allocated /\ seats <= 0) => AllZero(by_group)

\* C9 amended: with seats <= 0 D'Hondt, Hare, Lista Incompleta and Mayoria
\* Simple award 0 to every group; Balotaje awards 1 seat to the top group
\* when it wins the first round and 0 to every group otherwise.
C9_ZeroSeats ==
    /\ (Allocated /\ method # "balotaje" /\ seats <= 0) => AllZero(by_group)
    /\ (method = "balotaje" /\ seats <= 0) =>
           IF SumVotes(votes) > 0 /\ meta.win_first_round
           THEN \A gid \in DOMAIN by_group :
                    by_group[gid] = IF gid = meta.first THEN 1 ELSE 0
           ELSE AllZero(by_group)

C9_Witness ==
    /\ method = "mayoria-simple" /\ seats < 0
    /\ SumVotes(votes) > 0 /\ Len(votes) >= 2
    /\ AllZero(by_group)

\* C10 as stated: when every group's total is zero (non-empty dict,
\* seats > 0) every method awards 0 to every group.
C10_Original ==
    (Allocated /\ Len(votes) > 0 /\ SumVotes(votes) = 0 /\ seats > 0)
        => AllZero(by_group)

\* The method argument matches none of the accepted aliases.
Unsupported(m) ==
    /\ Truthy(m)
    /\ ~ IsOneOf(MethodLc(m), DhontNames \cup HareNames \cup ListaNames
                               \cup MayoriaNames \cup BalotajeNames)

\* C3 as stated: a call of do_calc with a method name that matches no
\* accepted alias does not return a success result and persists nothing: the
\* preprocessed file and the db entry are left as they were.
C3_Original ==
    [][\A m \in MethodInputs :
          (Unsupported(m) /\ DoCalc(m)) =>
              (response'.status # 200 /\ pre' = pre /\ entry' = entry)]_vars

Override == entry.exists /\ entry.seats.type = "int" /\ entry.seats.val > 0

\* C4 as stated: whenever the entry's seats value is present and > 0, each
\* seats resolver returns exactly that value, whatever the catalog and the
\* rows are.
C4_Original ==
    (resolved.by # "none" /\ Override) => resolved.seats = entry.seats.val

\* The sum of layer k (1 = A .. 4 = D) over the whole catalog: office equality
\* always, category and territorial context as the layer requires.
LayerTotal(k) ==
    LayerSum(catalog.items, Layers[k][1], Layers[k][2], _norm(Office),
             _norm(ElectionCategory),
             _mode([i \in 1..Len(pre.rows) |-> pre.rows[i].tipo_escala_territorial]),
             _mode([i \in 1..Len(pre.rows) |-> pre.rows[i].nombre_escala_territorial]))

\* C5 as stated: without an override, each seats resolver returns the sum of
\* the first of the layers A, B, C, D whose sum is strictly positive.
C5_Original ==
    \A k \in 1..Len(Layers) :
        (/\ resolved.by # "none"
         /\ ~ Override
         /\ catalog.exists
         /\ LayerTotal(k) > 0
         /\ \A j \in 1..(k - 1) : LayerTotal(j) <= 0)
            => resolved.seats = LayerTotal(k)

\* The rows have been aggregated and the totals persisted.
Aggregated == response.status = 200

IsPositive(r) == Has(r, "vote_type") /\ r.vote_type = 0
\* The group a row is counted under: "0" for a missing or empty group id.
GroupOf(r) == IF Has(r, "group_id") /\ r.group_id # EmptyGroupId THEN r.group_id ELSE 0
\* max(0, vote_count)
Clamped(r) == IF Has(r, "vote_number") /\ r.vote_number > 0 THEN r.vote_number ELSE 0

PositiveSum(rows, gid) ==
    SumInts([i \in 1..Len(rows) |->
        IF IsPositive(rows[i]) /\ GroupOf(rows[i]) = gid THEN Clamped(rows[i]) ELSE 0])

\* C11: positive_by_group has one entry per group id carried by a row of
\* type Positive (group "0" for a missing or empty id), and the entry is the
\* sum of max(0, vote_count) over the Positive rows of that group; negative
\* counts add 0 and rows of other types contribute nothing.
C11_AggregatePositive ==
    Aggregated =>
        LET p == pre.calc.all.positive.by_group
        IN  /\ Gids(p) = {GroupOf(pre.rows[i]) :
                             i \in {k \in 1..Len(pre.rows) : IsPositive(pre.rows[k])}}
            /\ Cardinality(Gids(p)) = Len(p)
            /\ \A k \in 1..Len(p) : p[k][2] = PositiveSum(pre.rows, p[k][1])

\* Two Positive rows of one group, one with a negative count, next to a
\* positive total for the group.
C11_Witness ==
    /\ Aggregated
    /\ \E i, j \in 1..Len(pre.rows) :
          /\ i # j
          /\ IsPositive(pre.rows[i]) /\ IsPositive(pre.rows[j])
          /\ GroupOf(pre.rows[i]) = GroupOf(pre.rows[j])
          /\ Has(pre.rows[i], "vote_number") /\ pre.rows[i].vote_number < 0
          /\ Clamped(pre.rows[j]) > 0
          /\ VotesOf(pre.calc.all.positive.by_group, GroupOf(pre.rows[i])) > 0

\* The vote_type code of each of the five other categories.
OtherCodes ==
    [impugnado |-> 1, recurrido |-> 2, comando |-> 3, en_blanco |-> 5, nulo |-> 6]

\* C12: others_totals has exactly the five keys, each the sum of
\* max(0, vote_count) over the rows of its type; rows with a missing or
\* unrecognized vote_type change no total, and the call raises no error.
C12_OthersTotals ==
    /\ response.status \in {0, 200}
    /\ Aggregated =>
          /\ DOMAIN response.totals = DOMAIN OtherCodes
          /\ \A name \in DOMAIN OtherCodes :
                response.totals[name] =
                    SumInts([i \in 1..Len(pre.rows) |->
                        IF /\ Has(pre.rows[i], "vote_type")
                           /\ pre.rows[i].vote_type = OtherCodes[name]
                        THEN Clamped(pre.rows[i]) ELSE 0])
          /\ \A name \in DOMAIN OtherCodes :
                pre.calc.all[name] = response.totals[name]

\* A row with no vote_type or with code 4 and a positive count, next to a
\* row that does count.
C12_Witness ==
    /\ Aggregated
    /\ \E i, j \in 1..Len(pre.rows) :
          /\ ~ Has(pre.rows[i], "vote_type") \/ pre.rows[i].vote_type = 4
          /\ Clamped(pre.rows[i]) > 0
          /\ Has(pre.rows[j], "vote_type") /\ pre.rows[j].vote_type = 6
          /\ response.totals.nulo = Clamped(pre.rows[j])
          /\ response.totals.nulo > 0

\* C13: Mayoria Simple with seats > 0 and a non-empty votes dict gives all the
\* seats to the group with the most votes, the greatest group id among the
\* groups tied for the most, and 0 to every other group.
C13_MayoriaSimpleWinner ==
    (method = "mayoria-simple" /\ seats > 0 /\ Len(votes) > 0) =>
        \E w \in Gids(votes) :
            /\ \A g \in Gids(votes) :
                  \/ VotesOf(votes, g) < VotesOf(votes, w)
                  \/ VotesOf(votes, g) = VotesOf(votes, w) /\ g <= w
            /\ by_group[w] = seats
            /\ \A g \in Gids(votes) \ {w} : by_group[g] = 0

\* Two groups tied for the most votes above a third one, several seats.
C13_Witness ==
    /\ method = "mayoria-simple"
    /\ seats > 1
    /\ \E a, b, c \in Gids(votes) :
          /\ a < b
          /\ VotesOf(votes, a) = VotesOf(votes, b)
          /\ VotesOf(votes, c) < VotesOf(votes, a)
          /\ VotesOf(votes, c) > 0
          /\ by_group[b] = seats

\* The group of S ranked first: most votes, greatest group id among ties.
RankTop(S) ==
    CHOOSE w \in S :
        \A g \in S : \/ VotesOf(votes, g) < VotesOf(votes, w)
                     \/ VotesOf(votes, g) = VotesOf(votes, w) /\ g <= w

ListaRan == method = "lista-incompleta" /\ Len(votes) > 0

\* C14: Lista Incompleta ranks by votes descending, ties by group id
\* descending; seats = 1 gives the winner 1, seats = 2 gives the winner 2,
\* seats = 3 gives the winner 2 and the runner-up 1; every other group gets
\* 0, and with one group nobody gets the runner-up share.
C14_ListaSmallSeats ==
    (ListaRan /\ seats \in {1, 2, 3}) =>
        LET w == RankTop(Gids(votes))
            rest == Gids(votes) \ {w}
        IN  /\ by_group[w] = IF seats = 1 THEN 1 ELSE 2
            /\ rest # {} =>
                  /\ by_group[RankTop(rest)] = IF seats = 3 THEN 1 ELSE 0
                  /\ \A g \in rest \ {RankTop(rest)} : by_group[g] = 0
            /\ DOMAIN by_group = Gids(votes)

\* Three seats, the two leading groups tied, a third group with votes.
C14_Witness ==
    /\ ListaRan
    /\ seats = 3
    /\ \E a, b, c \in Gids(votes) :
          /\ a < b
          /\ VotesOf(votes, a) = VotesOf(votes, b)
          /\ 0 < VotesOf(votes, c) /\ VotesOf(votes, c) < VotesOf(votes, a)
          /\ by_group[b] = 2 /\ by_group[a] = 1 /\ by_group[c] = 0

\* C15: with seats >= 4 the winner gets round(seats * 2/3) clamped to
\* [1, seats], the runner-up, when there is one, gets the positive remainder,
\* every other group 0, and the winner never has fewer than the runner-up.
C15_ListaTwoThirds ==
    (ListaRan /\ seats >= 4) =>
        LET w == RankTop(Gids(votes))
            rest == Gids(votes) \ {w}
        IN  /\ \E n \in 0..(seats + 1) :
                  /\ 3 * n - 2 * seats \in {0 - 1, 0, 1}
                  /\ by_group[w] = IF n < 1 THEN 1 ELSE IF n > seats THEN seats ELSE n
            /\ rest # {} =>
                  /\ by_group[RankTop(rest)] = seats - by_group[w]
                  /\ by_group[RankTop(rest)] <= by_group[w]
                  /\ \A g \in rest \ {RankTop(rest)} : by_group[g] = 0

\* Five or more seats, a runner-up holding a positive share next to a third
\* group.
C15_Witness ==
    /\ ListaRan
    /\ seats >= 5
    /\ Len(votes) = 3
    /\ \E r \in Gids(votes) :
          /\ r # RankTop(Gids(votes))
          /\ by_group[r] > 0
          /\ by_group[RankTop(Gids(votes))] + by_group[r] = seats

Resolved == resolved.by # "none"

\* No seats value is configured for the entry: it is absent, zero or not a
\* number.
NoSeatsValue ==
    entry.exists /\ (entry.seats.type # "int" \/ entry.seats.val = 0)

\* The catalog has no line for the office: it is missing or unreadable, or
\* empty, or none of its lines carries the office name.
NoCatalogLine ==
    \/ ~ catalog.seats_jsonl
    \/ ~ catalog.exists
    \/ \A i \in 1..Len(catalog.items) :
          _norm(Get(catalog.items[i], "nombre_cargo", <<>>)) # _norm(Office)

SeatCountOrOne(item) ==
    IF resolved.by = "get_seats"
    THEN IF Has(item, "cantidad_cargos") THEN item.cantidad_cargos.val ELSE 1
    ELSE IF Has(item, "seats") THEN item.seats.val ELSE 1

\* Every line of the catalog is a line of the office that meets both
\* requirements of layer A, so that every layer sums the same lines.
AllLinesMatch ==
    /\ catalog.exists
    /\ Len(catalog.items) > 0
    /\ \A i \in 1..Len(catalog.items) :
          /\ _norm(catalog.items[i].nombre_cargo) = _norm(Office)
          /\ Has(catalog.items[i], "category") =>
                _norm(catalog.items[i].category) = _norm(ElectionCategory)
    /\ Len(pre.rows) = 0

\* C17 as stated: a matching line without a seat count adds exactly 1 to the
\* sum and a line with a seat count adds that count.
C17_Original ==
    (Resolved /\ ~ Override /\ AllLinesMatch) =>
        resolved.seats =
            SumInts([i \in 1..Len(catalog.items) |-> SeatCountOrOne(catalog.items[i])])

\* C18 as stated: the resolver returns a non-negative integer, and when no
\* layer has a positive sum it returns the configured seats value, 0 when
\* that value is absent, invalid or not positive.
C18_Original ==
    Resolved =>
        /\ resolved.seats >= 0
        /\ (\A k \in 1..Len(Layers) : LayerTotal(k) <= 0) =>
              resolved.seats = IF Override THEN entry.seats.val ELSE 0

\* C19: for every allocation method, a call repeated with the same method on
\* the same votes mapping and the same seats returns the by_group and the
\* metadata of the call before it, also when the groups of the mapping were
\* inserted in another order in between.
C19_Deterministic ==
    [][(method # "none" /\ method' = method /\ seats' = seats
            /\ SameMapping(votes, votes'))
        => (by_group' = by_group /\ meta' = meta)]_vars

\* A D'Hondt or Hare result that tells two groups with equal votes apart, the
\* one with the greater gid inserted first.
C19_Witness ==
    /\ method \in {"d-hont", "hare"}
    /\ \E i \in 1..Len(votes) : \E j \in (i + 1)..Len(votes) :
          /\ votes[i][1] > votes[j][1]
          /\ votes[i][2] = votes[j][2]
          /\ by_group[votes[i][1]] # by_group[votes[j][1]]

AllDone ==
    /\ DOMAIN calls = Contests
    /\ \A c \in Contests : calls[c].pc = "done"

\* What one call of do_calc alone leaves in the preprocessed file of its
\* contest.
ResultOf(c) ==
    LET rows == pre_json[c].rows
        agg == _aggregate_votes(rows)
        s == _resolve_seats_from_jsonl_or_meta(db_json[c], catalog, Office)
    IN  AllBlock(rows, SeatsInfo(calls[c].method, agg.positive_by_group, s))

\* C20 as stated: whatever the interleaving of the steps of two calls on two
\* different contests, when both have returned each contest's file holds its
\* result and each contest's entry in db.json holds its last-calculation
\* mark, as after the two calls run one after the other.
C20_Original ==
    AllDone =>
        \A c \in Contests :
            /\ pre_json[c].calc = [all |-> ResultOf(c)]
            /\ db_json[c].last_calc # 0

Normalized == norm_result.by # "none"

\* An empty or undefined input: the empty string, None, or a value that is
\* not a string.
EmptyOrUndefined == norm_arg.type # "str" \/ norm_arg.val = <<>>

\* C21 as stated: no normalizer raises, and each returns the empty string
\* for an empty or undefined input.
C21_Original ==
    Normalized =>
        /\ ~ norm_result.raised
        /\ EmptyOrUndefined => norm_result.value = <<>>

\* The order of the claim on the pairs (group, divisor), in exact
\* arithmetic: quotient descending, then raw votes descending, then group id
\* descending; the entries of one group with equal quotients (zero votes)
\* keep the order of their divisors.
DhondtPrecedes(h, e, g, d) ==
    LET vh == VotesOf(votes, h)
        vg == VotesOf(votes, g)
    IN  \/ vh * d > vg * e
        \/ /\ vh * d = vg * e
           /\ \/ vh > vg
              \/ vh = vg /\ (h > g \/ (h = g /\ e < d))

\* The entry (g, d) is one of the first seats entries of that order.
DhondtPicked(g, d) ==
    Cardinality({p \in Gids(votes) \X (1..seats) :
                    DhondtPrecedes(p[1], p[2], g, d)}) < seats

DhondtRan == method = "d-hont" /\ seats > 0 /\ Len(votes) > 0

\* C22: D'Hondt awards every group one seat per entry it has among the first
\* seats entries of the order quotient descending, raw votes descending,
\* group id descending, over the divisors 1..seats.
C22_DhondtOrder ==
    DhondtRan =>
        \A g \in Gids(votes) :
            by_group[g] = Cardinality({d \in 1..seats : DhondtPicked(g, d)})

\* Two entries of equal quotient from groups with different raw votes, one
\* inside and one outside the first seats entries: the seat went to the
\* group with more votes.
C22_Witness ==
    /\ DhondtRan
    /\ \E g, h \in Gids(votes) : \E d, e \in 1..seats :
          /\ VotesOf(votes, g) > VotesOf(votes, h)
          /\ VotesOf(votes, h) > 0
          /\ VotesOf(votes, g) * e = VotesOf(votes, h) * d
          /\ DhondtPicked(g, d)
          /\ ~ DhondtPicked(h, e)
          /\ by_group[g] >= d
          /\ by_group[h] < e

\* The normalized forms of the non-empty values of one field of the rows,
\* one per row that has a non-empty value.
NormalizedValues(field) ==
    LET given == SelectSeq(pre.rows, LAMBDA r : Get(r, field, <<>>) # <<>>)
    IN  [i \in 1..Len(given) |-> _norm(given[i][field])]

TimesIn(vs, v) == Cardinality({i \in 1..Len(vs) : vs[i] = v})

\* ctx is undefined when the field has no non-empty value, and otherwise one
\* of the normalized values that no other one outnumbers.
IsModeOf(ctx, field) ==
    LET vs == NormalizedValues(field)
    IN  IF Len(vs) = 0 THEN ctx = <<>>
        ELSE /\ TimesIn(vs, ctx) > 0
             /\ \A i \in 1..Len(vs) : TimesIn(vs, vs[i]) <= TimesIn(vs, ctx)

\* The seat counts of the catalog lines of the office whose category is
\* absent or the election's (category TRUE), or of all its lines.
OfficeSeats(category) ==
    SumInts([i \in 1..Len(catalog.items) |->
        LET it == catalog.items[i]
        IN  IF _norm(it.nombre_cargo) # _norm(Office) THEN 0
            ELSE IF category /\ Has(it, "category")
                    /\ _norm(it.category) # _norm(ElectionCategory) THEN 0
            ELSE CantidadCargos(it)])

ContextComputed == resolved.by = "get_seats" /\ Has(resolved, "ctx_tipo")

CandidateNames ==
    {_norm(c) : c \in {entry.nombre_cargo, entry.office_name, Office}} \ {<<>>}

\* The total over the catalog lines of the candidate names: the line's seats
\* value when it has one, 1 otherwise.
CatalogSeats ==
    SumInts([i \in 1..Len(catalog.items) |->
        LET it == catalog.items[i]
        IN  IF _norm(Get(it, "nombre_cargo", <<>>)) \notin CandidateNames THEN 0
            ELSE IF Has(it, "seats") /\ it.seats.type = "int" THEN it.seats.val
            ELSE 1])

\* C24 as stated: when the entry has no positive seats value and the
\* category's catalog file exists, the seats do_calc resolves and hands to
\* the allocation are the total over the catalog lines of the candidate
\* names.
C24_Original ==
    (response.status = 200 /\ ~ Override /\ catalog.seats_jsonl /\ catalog.exists) =>
        response.seats = CatalogSeats

\* The group the sequential procedure gives the next seat to: the one with
\* the greatest votes[g] / (won[g] + 1), compared exactly, then the most raw
\* votes, then the greatest group id.
NextWinner(won) ==
    CHOOSE g \in DOMAIN won :
        \A h \in DOMAIN won \ {g} :
            LET vg == VotesOf(votes, g)
                vh == VotesOf(votes, h)
            IN  \/ vg * (won[h] + 1) > vh * (won[g] + 1)
                \/ /\ vg * (won[h] + 1) = vh * (won[g] + 1)
                   /\ (vg > vh \/ (vg = vh /\ g > h))

\* The seats won after n seats were awarded one at a time.
RECURSIVE SequentialDhondt(_)
SequentialDhondt(n) ==
    IF n = 0 THEN [g \in Gids(votes) |-> 0]
    ELSE LET won == SequentialDhondt(n - 1)
         IN  [won EXCEPT ![NextWinner(won)] = @ + 1]

\* C25: for seats > 0 the by_group of _alloc_dhondt is the by_group of the
\* sequential highest-averages procedure.
C25_DhondtIsSequential ==
    DhondtRan => by_group = SequentialDhondt(seats)

\* All the seats of the model awarded, to three groups, two of them with
\* equal votes.
C25_Witness ==
    /\ DhondtRan
    /\ seats = MaxSeats
    /\ Cardinality({g \in Gids(votes) : by_group[g] > 0}) = 3
    /\ \E g, h \in Gids(votes) : g # h /\ VotesOf(votes, g) = VotesOf(votes, h)

ProportionalRan == method \in {"d-hont", "hare"} /\ seats > 0 /\ Len(votes) > 0

\* C26: D'Hondt and Hare award a group with more votes at least the seats of
\* a group with fewer, and award nothing to a group without votes when some
\* group has votes.
C26_VoteOrder ==
    ProportionalRan =>
        /\ \A a, b \in Gids(votes) :
              VotesOf(votes, a) > VotesOf(votes, b) => by_group[a] >= by_group[b]
        /\ (\E a \in Gids(votes) : VotesOf(votes, a) > 0) =>
              \A g \in Gids(votes) : VotesOf(votes, g) = 0 => by_group[g] = 0

\* Hare with more seats than groups with votes, one group without votes
\* and two groups with different votes and different seats.
C26_Witness ==
    /\ method = "hare"
    /\ seats > Cardinality({g \in Gids(votes) : VotesOf(votes, g) > 0})
    /\ \E g \in Gids(votes) : VotesOf(votes, g) = 0 /\ by_group[g] = 0
    /\ \E a, b \in Gids(votes) :
          /\ VotesOf(votes, a) > VotesOf(votes, b)
          /\ VotesOf(votes, b) > 0
          /\ by_group[a] > by_group[b]

\* votes[g] * seats / total: its integer part and its remainder, the
\* remainder in units of 1 / total of a seat.
HareQuotaFloor(g) == (VotesOf(votes, g) * seats) \div SumVotes(votes)
HareQuotaRest(g) == (VotesOf(votes, g) * seats) % SumVotes(votes)

\* h comes before g in the order remainder descending, raw votes
\* descending, group id descending.
HarePrecedes(h, g) ==
    \/ HareQuotaRest(h) > HareQuotaRest(g)
    \/ /\ HareQuotaRest(h) = HareQuotaRest(g)
       /\ \/ VotesOf(votes, h) > VotesOf(votes, g)
          \/ VotesOf(votes, h) = VotesOf(votes, g) /\ h > g

\* g is one of the first (seats - assigned) groups of that order.
HareExtra(g) ==
    LET floors == [h \in Gids(votes) |-> HareQuotaFloor(h)]
        assigned == SumOver(floors, Gids(votes))
    IN  Cardinality({h \in Gids(votes) : HarePrecedes(h, g)}) < seats - assigned

\* C27 as stated: for seats > 0 and total votes > 0 Hare awards every group
\* floor(votes * seats / total), plus one to exactly the first
\* (seats - assigned) groups in the order remainder descending, raw votes
\* descending, group id descending.
C27_Original ==
    (method = "hare" /\ seats > 0 /\ SumVotes(votes) > 0) =>
        \A g \in Gids(votes) :
            by_group[g] = HareQuotaFloor(g) + (IF HareExtra(g) THEN 1 ELSE 0)

\* C28: a do_calc that fails, with 404 for an entry absent from db.json and
\* with 400 for an entry without preprocessed_json or a preprocessed file
\* that does not exist, leaves db.json (and so last_calc), the preprocessed
\* file and the contest log as they were.
C28_FailedCalcWritesNothing ==
    [][(response.status = 0 /\ response'.status # 0
            /\ (~ entry.exists \/ ~ entry.preprocessed_json \/ ~ pre.exists))
        => /\ response'.status = IF entry.exists THEN 400 ELSE 404
           /\ entry' = entry
           /\ pre' = pre
           /\ log' = log]_vars

\* A call rejected because the preprocessed file is missing: nothing marked,
\* nothing logged.
C28_Witness ==
    /\ response.status = 400
    /\ entry.exists
    /\ entry.preprocessed_json
    /\ ~ pre.exists
    /\ entry.last_calc = 0
    /\ log = <<>>


\* A successful do_parse has recorded base_sha256 and file_path in the entry.
ParseRecorded ==
    entry.exists /\ entry.base_sha256 # NoDigest /\ entry.file_path # NoDigest

\* A successful do_preprocess has recorded preprocessed_json in the entry.
Preprocessed == entry.exists /\ entry.preprocessed_json

\* The preprocessed file holds a calculation result.
CalcPersisted == pre.exists /\ Has(pre.calc, "all")

Rejected(r) == r.status \in {400, 404}

\* C29: over any sequence of create_phase, upsert_url, do_parse,
\* do_preprocess and do_calc on one entry, a calculation result is written
\* only by a successful do_calc on an entry a successful do_preprocess has
\* marked, the preprocess mark is written only by a successful do_preprocess
\* on an entry holding base_sha256 and file_path, these two are written only
\* by a successful do_parse, and do_calc before the preprocess mark and
\* do_preprocess before the parse record end with a 400 or 404 error and
\* write nothing.
C29_Lifecycle ==
    [][/\ (CalcPersisted' /\ pre' # pre)
            => /\ Preprocessed
               /\ response'.status = 200
               /\ response'.stage = "calc"
       /\ (Preprocessed' /\ (~ Preprocessed
                             \/ entry'.last_preprocess # entry.last_preprocess))
            => /\ ParseRecorded
               /\ response'.status = 200
               /\ response'.stage = "preprocess"
       /\ (ParseRecorded' /\ (~ ParseRecorded
                              \/ entry'.base_sha256 # entry.base_sha256
                              \/ entry'.file_path # entry.file_path))
            => /\ response'.status = 200
               /\ response'.stage = "parse"
       /\ (DoCalcAgain /\ ~ Preprocessed)
            => Rejected(response') /\ UNCHANGED <<entry, pre, log, csv_files>>
       /\ (DoPreprocess /\ ~ ParseRecorded)
            => Rejected(response') /\ UNCHANGED <<entry, pre, log, csv_files>>]_vars

\* A result is persisted after a parse, a later preprocess and a later calc.
C29_Witness ==
    /\ CalcPersisted
    /\ ParseRecorded
    /\ Preprocessed
    /\ 0 < entry.last_processed
    /\ entry.last_processed < entry.last_preprocess
    /\ entry.last_preprocess < entry.last_calc
    /\ response.status = 200
    /\ response.stage = "calc"


\* C30: a do_calc without method (None or the empty string) that succeeds
\* runs no allocation: the persisted calc.all block has no "seats" key and
\* the returned assignment is None, while the block holds the vote totals of
\* the rows, last_calc is set to the time of the call and the rows of the
\* payload are the ones read.
C30_NoMethodNoAllocation ==
    [][(response.status = 0 /\ response'.status = 200 /\ response'.method = NoMethod)
        => LET agg == _aggregate_votes(pre.rows)
               block == pre'.calc.all
           IN  /\ ~ Has(block, "seats")
               /\ response'.assignment = None
               /\ DOMAIN block = {"positive", "all"} \cup DOMAIN OtherCodes
               /\ block.positive.by_group = agg.positive_by_group
               /\ block.positive.all = SumVotes(agg.positive_by_group)
               /\ \A name \in DOMAIN OtherCodes : block[name] = agg.others_totals[name]
               /\ block.all = SumVotes(agg.positive_by_group)
                              + SumOver(agg.others_totals, DOMAIN OtherCodes)
               /\ entry'.last_calc = clock
               /\ entry'.last_calc > 0
               /\ pre'.rows = pre.rows]_vars

\* A call without method on a payload with a Positive row and another row.
C30_Witness ==
    /\ response.status = 200
    /\ response.method = NoMethod
    /\ response.assignment = None
    /\ entry.last_calc > 0
    /\ Len(pre.rows) = 2
    /\ Len(pre.calc.all.positive.by_group) > 0
    /\ pre.calc.all.nulo > 0

====
